---- MODULE Spec2Model ----
(***************************************************************************)
(* Membership store (db_utils.py), registration / manage-children UI       *)
(* (app.py) and the payment-gateway webhook receiver (webhook_listener.py).*)
(*                                                                         *)
(* Time is counted in whole days.  The payment gateway is an external      *)
(* service: the status and current_period_end it reports are inputs of     *)
(* each call, its subscription line items are state.  Within one           *)
(* subscription the gateway keeps at most one item per price, so an item   *)
(* is identified by its price.  Store I/O faults other than the            *)
(* unique-email constraint are outside the model.                          *)
(***************************************************************************)
EXTENDS Integers, Sequences, FiniteSets, TLC

\* ---------------------------------------------------------------- bounds
MaxTime == 2
MaxChildren == 2
MaxQuote == 6

\* ------------------------------------------------------ program constants
BASE_FEE == 20
PER_CHILD_FEE == 5
PLACEHOLDER_DAYS == 30
PAST_DAYS == 1

NULL == "NULL"
BASE_PRICE_ID == "price_base"
CHILD_PRICE_ID == "price_child"
OTHER_PRICE_ID == "price_other"

\* The addresses that register, and the addresses that events and the
\* interleaved registrations may also carry.
Emails == {"a@x.com"}
AllEmails == Emails \cup {"b@x.com"}
Names == {"A"}
Passwords == {"pw"}
Subs == {"sub_1", "sub_2"}
Customers == {"cus_1"}
Uuids == <<"id1", "id2", "id3", "id4", "id5", "id6", "id7", "id8">>
GatewayStatuses == {"incomplete", "active", "trialing", "canceled"}

VARIABLES
    members,          \* the members table: a sequence of rows, in insertion order
    gateway,          \* gateway[s]: the set of line items of subscription s
    now,              \* the clock, in days
    session,          \* st.session_state: the logged-in email, or NULL
    endpoint_secret,  \* STRIPE_WEBHOOK_SECRET as read at start-up, or NULL
    last,             \* the last request that was handled, and its outcome
    regs,             \* the registrations in flight (interleaved execution)
    page,             \* what a page computes from the values before it
    handlers,         \* the webhook handlers in flight (interleaved execution)
    remote            \* remote[s]: the gateway's status and period end of s

vars == <<members, gateway, now, session, endpoint_secret, last, regs, page,
          handlers, remote>>

\* ---------------------------------------------------------------- helpers
\* datetime.isoformat() of an aware UTC datetime: the text of the instant with
\* its offset.  fromisoformat() reads the instant and the offset back.
IsoFormat(t) == [kind |-> "iso", t |-> t, tz |-> "+00:00"]

\* bcrypt.hashpw / bcrypt.checkpw
HashPw(pw) == <<"bcrypt", pw>>

\* fernet.encrypt of the concatenated questionnaire answers
Encrypt(plain) == <<"fernet", plain>>

\* Variant: the base fee is charged per person.
calculate_total_monthly_cost_per_head(children) == BASE_FEE * children + PER_CHILD_FEE

calculate_total_monthly_cost(children) == BASE_FEE + (PER_CHILD_FEE * children)

UsedUuids == {members[i].id : i \in DOMAIN members}
                \cup {members[i].certificate_id : i \in DOMAIN members}

\* generate_unique_id(): the k-th identifier not yet in use
RECURSIVE FreshFrom(_, _, _)
FreshFrom(i, k, used) ==
    IF i > Len(Uuids) THEN NULL
    ELSE IF Uuids[i] \in used THEN FreshFrom(i + 1, k, used)
    ELSE IF k = 1 THEN Uuids[i]
    ELSE FreshFrom(i + 1, k - 1, used)

generate_unique_id(k, used) == FreshFrom(1, k, used)

\* ------------------------------------------------------------ db_utils.py
get_member_by_email(tbl, email) ==
    LET hits == {i \in DOMAIN tbl : tbl[i].email = email}
    IN  IF hits = {} THEN 0 ELSE CHOOSE i \in hits : \A j \in hits : i <= j

get_member_by_stripe_subscription_id(tbl, sub) ==
    LET hits == {i \in DOMAIN tbl : sub # NULL /\ tbl[i].stripe_subscription_id = sub}
    IN  IF hits = {} THEN 0 ELSE CHOOSE i \in hits : \A j \in hits : i <= j

\* Variant: the certificate of a new row is active from the start.
NewRow_active(user_id, name, email, password_hash, children, cert_id, initial_expiry_iso, medical, cust, sub, t) ==
    [id |-> user_id, name |-> name, email |-> email, password_hash |-> password_hash,
     children |-> children, certificate_id |-> cert_id,
     certificate_status |-> "active",
     certificate_expiry_date |-> initial_expiry_iso,
     medical_answers_encrypted |-> medical,
     stripe_customer_id |-> cust, stripe_subscription_id |-> sub,
     subscription_status |-> "incomplete", created_at |-> t, updated_at |-> t]

\* The row that add_member inserts.
NewRow(user_id, name, email, password_hash, children, cert_id, initial_expiry_iso, medical, cust, sub, t) ==
    [id |-> user_id, name |-> name, email |-> email, password_hash |-> password_hash,
     children |-> children, certificate_id |-> cert_id,
     certificate_status |-> "pending_payment",
     certificate_expiry_date |-> initial_expiry_iso,
     medical_answers_encrypted |-> medical,
     stripe_customer_id |-> cust, stripe_subscription_id |-> sub,
     subscription_status |-> "incomplete", created_at |-> t, updated_at |-> t]

\* The INSERT is refused (sqlite3.IntegrityError) when the primary key or the
\* UNIQUE email is already taken.
\* Variant: a table without the unique constraint on email.
InsertRefused_id_only(tbl, row) ==
    \E i \in DOMAIN tbl : tbl[i].id = row.id

\* The insert violates the primary key or the unique constraint on email.
InsertRefused(tbl, row) ==
    \E i \in DOMAIN tbl : tbl[i].email = row.email \/ tbl[i].id = row.id

add_member(tbl, row) ==
    IF InsertRefused(tbl, row)
    THEN [raised |-> TRUE, tbl |-> tbl]
    ELSE [raised |-> FALSE, tbl |-> Append(tbl, row)]

\* Variant: linking the subscription also marks the certificate by the
\* subscription's status.
update_member_subscription_details_sets_certificate(tbl, email, cust, sub, sub_status, t) ==
    [i \in DOMAIN tbl |->
        IF tbl[i].email = email
        THEN [tbl[i] EXCEPT !.stripe_customer_id = cust,
                            !.stripe_subscription_id = sub,
                            !.subscription_status = sub_status,
                            !.certificate_status =
                                IF sub_status = "active" \/ sub_status = "trialing"
                                THEN "active" ELSE "pending_payment",
                            !.updated_at = t]
        ELSE tbl[i]]

\* Variant: linking the subscription restamps the row as newly created.
update_member_subscription_details_restamps(tbl, email, cust, sub, sub_status, t) ==
    [i \in DOMAIN tbl |->
        IF tbl[i].email = email
        THEN [tbl[i] EXCEPT !.stripe_customer_id = cust,
                            !.stripe_subscription_id = sub,
                            !.subscription_status = sub_status,
                            !.created_at = t,
                            !.updated_at = t]
        ELSE tbl[i]]

update_member_subscription_details(tbl, email, cust, sub, sub_status, t) ==
    [i \in DOMAIN tbl |->
        IF tbl[i].email = email
        THEN [tbl[i] EXCEPT !.stripe_customer_id = cust,
                            !.stripe_subscription_id = sub,
                            !.subscription_status = sub_status,
                            !.updated_at = t]
        ELSE tbl[i]]

\* Variant: the UPDATE has no WHERE clause.
update_subscription_status_all_rows(tbl, sub, sub_status, cert_status, cert_expiry_iso, t) ==
    [i \in DOMAIN tbl |->
        [tbl[i] EXCEPT !.subscription_status = sub_status,
                       !.certificate_status = cert_status,
                       !.certificate_expiry_date = cert_expiry_iso,
                       !.updated_at = t]]

\* Variant: the expiry column is left out of the UPDATE.
update_subscription_status_no_expiry(tbl, sub, sub_status, cert_status, cert_expiry_iso, t) ==
    [i \in DOMAIN tbl |->
        IF sub # NULL /\ tbl[i].stripe_subscription_id = sub
        THEN [tbl[i] EXCEPT !.subscription_status = sub_status,
                            !.certificate_status = cert_status,
                            !.updated_at = t]
        ELSE tbl[i]]

\* Variant: the expiry is never moved to an earlier time than the stored one.
update_subscription_status_keeps_later_expiry(tbl, sub, sub_status, cert_status, cert_expiry_iso, t) ==
    [i \in DOMAIN tbl |->
        IF sub # NULL /\ tbl[i].stripe_subscription_id = sub
        THEN [tbl[i] EXCEPT !.subscription_status = sub_status,
                            !.certificate_status = cert_status,
                            !.certificate_expiry_date =
                                IF tbl[i].certificate_expiry_date.t > cert_expiry_iso.t
                                THEN tbl[i].certificate_expiry_date
                                ELSE cert_expiry_iso,
                            !.updated_at = t]
        ELSE tbl[i]]

update_subscription_status(tbl, sub, sub_status, cert_status, cert_expiry_iso, t) ==
    [i \in DOMAIN tbl |->
        IF sub # NULL /\ tbl[i].stripe_subscription_id = sub
        THEN IF cert_expiry_iso.kind \notin {"null", "empty"}
             THEN [tbl[i] EXCEPT !.subscription_status = sub_status,
                                 !.certificate_status = cert_status,
                                 !.certificate_expiry_date = cert_expiry_iso,
                                 !.updated_at = t]
             ELSE [tbl[i] EXCEPT !.subscription_status = sub_status,
                                 !.certificate_status = cert_status,
                                 !.updated_at = t]
        ELSE tbl[i]]

\* Variant: changing the count also activates the certificate.
update_children_count_activates(tbl, email, new_children_count, t) ==
    [i \in DOMAIN tbl |->
        IF tbl[i].email = email
        THEN [tbl[i] EXCEPT !.children = new_children_count, !.updated_at = t,
                            !.certificate_status = "active"]
        ELSE tbl[i]]

update_children_count(tbl, email, new_children_count, t) ==
    [i \in DOMAIN tbl |->
        IF tbl[i].email = email
        THEN [tbl[i] EXCEPT !.children = new_children_count, !.updated_at = t]
        ELSE tbl[i]]

\* ------------------------------------------------- the payment gateway
ItemId(price) == <<"si", price>>

Item(price, quantity) == [id |-> ItemId(price), price |-> price, quantity |-> quantity]

NOID == <<"si", NULL>>

\* stripe.Subscription.modify(items=...): an entry with an id and deleted
\* removes that item, an entry with an id sets its quantity, an entry with a
\* price and no id adds an item; items not named stay as they are.
RECURSIVE StripeModify(_, _)
StripeModify(items, updates) ==
    IF updates = <<>> THEN items
    ELSE LET u == Head(updates)
             next == IF u.id # NOID /\ u.deleted
                         THEN {it \in items : it.id # u.id}
                     ELSE IF u.id # NOID
                         THEN {IF it.id = u.id THEN [it EXCEPT !.quantity = u.quantity]
                                               ELSE it : it \in items}
                     ELSE items \cup {Item(u.price, u.quantity)}
         IN  StripeModify(next, Tail(updates))

ItemIdOfPrice(items, price) ==
    IF \E it \in items : it.price = price
    THEN (CHOOSE it \in items : it.price = price).id
    ELSE NOID

\* ------------------------------------------------------ app.py: adapter
create_stripe_checkout_session(email, children_count, user_id, gw_ok) ==
    LET line_items ==
            IF children_count > 0
            THEN {Item(BASE_PRICE_ID, 1), Item(CHILD_PRICE_ID, children_count)}
            ELSE {Item(BASE_PRICE_ID, 1)}
    IN  IF gw_ok
        THEN [id |-> <<"cs", user_id>>, url |-> <<"checkout", email, line_items>>]
        ELSE [id |-> <<"cs", NULL>>, url |-> <<>>]

\* Variant: the base item is given the children's quantity.
ItemsToUpdate_rewrites_base(items, new_quantity) ==
    LET base_item_id == ItemIdOfPrice(items, BASE_PRICE_ID)
    IN  <<[id |-> base_item_id, price |-> NULL, quantity |-> new_quantity,
           deleted |-> new_quantity = 0]>>

\* Variant: a count of zero leaves the child item in place.
ItemsToUpdate_keeps_child(items, new_quantity) ==
    LET child_item_id == ItemIdOfPrice(items, CHILD_PRICE_ID)
        base_item_id == ItemIdOfPrice(items, BASE_PRICE_ID)
        keep == <<[id |-> base_item_id, price |-> NULL, quantity |-> 1, deleted |-> FALSE]>>
    IN  IF child_item_id # NOID /\ new_quantity > 0
        THEN Append(keep, [id |-> child_item_id, price |-> NULL,
                           quantity |-> new_quantity, deleted |-> FALSE])
        ELSE IF new_quantity > 0
        THEN Append(keep, [id |-> NOID, price |-> CHILD_PRICE_ID,
                           quantity |-> new_quantity, deleted |-> FALSE])
        ELSE keep

\* The items list handed to stripe.Subscription.modify.
ItemsToUpdate(items, new_quantity) ==
    LET child_item_id == ItemIdOfPrice(items, CHILD_PRICE_ID)
        base_item_id == ItemIdOfPrice(items, BASE_PRICE_ID)
        keep == <<[id |-> base_item_id, price |-> NULL, quantity |-> 1, deleted |-> FALSE]>>
    IN  IF child_item_id # NOID
        THEN IF new_quantity > 0
             THEN Append(keep, [id |-> child_item_id, price |-> NULL,
                                quantity |-> new_quantity, deleted |-> FALSE])
             ELSE Append(keep, [id |-> child_item_id, price |-> NULL,
                                quantity |-> 0, deleted |-> TRUE])
        ELSE IF new_quantity > 0
             THEN Append(keep, [id |-> NOID, price |-> CHILD_PRICE_ID,
                                quantity |-> new_quantity, deleted |-> FALSE])
             ELSE keep

\* Returns the function's result, the subscription's items afterwards and the
\* gateway calls that were issued.
update_stripe_subscription_children(items, new_quantity, retrieve_ok, modify_ok) ==
    IF ~retrieve_ok
    THEN [ret |-> FALSE, items |-> items, calls |-> <<"retrieve">>]
    ELSE IF ItemIdOfPrice(items, BASE_PRICE_ID) = NOID
    THEN [ret |-> FALSE, items |-> items, calls |-> <<"retrieve">>]
    ELSE IF ~modify_ok
    THEN [ret |-> FALSE, items |-> items, calls |-> <<"retrieve", "modify">>]
    ELSE [ret |-> TRUE,
          items |-> StripeModify(items, ItemsToUpdate(items, new_quantity)),
          calls |-> <<"retrieve", "modify">>]

\* fromisoformat(s.replace('Z', '+00:00')), a naive result taken as UTC
ParseExpiry(s) ==
    IF s.kind = "iso" /\ s.tz \in {"+00:00", "Z", ""}
    THEN [ok |-> TRUE, t |-> s.t]
    ELSE [ok |-> FALSE, t |-> 0]

\* Variant: a certificate is still valid at the instant it expires.
is_certificate_valid_from_db_inclusive(expiry_date_str, status, t) ==
    IF status # "active" THEN FALSE
    ELSE IF expiry_date_str.kind \in {"null", "empty"} THEN FALSE
    ELSE LET p == ParseExpiry(expiry_date_str)
         IN  IF p.ok THEN p.t >= t ELSE FALSE

is_certificate_valid_from_db(expiry_date_str, status, t) ==
    IF status # "active" THEN FALSE
    ELSE IF expiry_date_str.kind \in {"null", "empty"} THEN FALSE
    ELSE LET p == ParseExpiry(expiry_date_str)
         IN  IF p.ok THEN p.t > t ELSE FALSE

\* ------------------------------------------------------ the last request
\* op, type: the operation and, for a webhook request, the event type;
\* sig_ok, payload_ok: whether the request's signature and payload were good;
\* email: the address entered in the form;
\* sub, gw_ok, T: the subscription concerned, whether the gateway call
\* succeeded and the current_period_end it reported; qty: the count entered;
\* code, outcome, calls: the response, the message shown and the gateway
\* calls issued; replay: the request equals the one handled just before;
\* after: the type of the event handled just before for the same subscription.
NoLast ==
    [op |-> "none", type |-> "", sig_ok |-> TRUE, payload_ok |-> TRUE,
     email |-> NULL, sub |-> NULL, gw_ok |-> FALSE, T |-> 0, qty |-> 0,
     code |-> 0, outcome |-> "", calls |-> <<>>, replay |-> FALSE, after |-> ""]

\* ------------------------------------------------------------ inputs
PeriodEnds == {1, MaxTime + 1}

\* The line items a subscription can start with.
ItemSets ==
    {b \cup c \cup o :
        b \in {{}, {Item(BASE_PRICE_ID, 1)}},
        c \in {{}} \cup {{Item(CHILD_PRICE_ID, q)} : q \in 1..MaxChildren},
        o \in {{}, {Item(OTHER_PRICE_ID, 1)}}}

NoEvent ==
    [type |-> "", customer |-> NULL, sub |-> NULL, app_user_id |-> NULL,
     email |-> NULL, status |-> "", T |-> 0, items |-> {}]

\* Sessions with every field, and sessions that lack one of the three the
\* handler requires.
CheckoutEvents ==
    LET full == {[NoEvent EXCEPT !.type = "checkout.session.completed",
                                 !.customer = c, !.sub = s, !.app_user_id = u,
                                 !.email = e] :
                    c \in Customers, s \in Subs, u \in {Uuids[1], Uuids[3]},
                    e \in AllEmails \cup {NULL}}
    IN  full \cup {[ev EXCEPT !.customer = NULL] : ev \in full}
             \cup {[ev EXCEPT !.sub = NULL] : ev \in full}
             \cup {[ev EXCEPT !.app_user_id = NULL] : ev \in full}

InvoiceEvents ==
    {[NoEvent EXCEPT !.type = ty, !.sub = s] :
        ty \in {"invoice.payment_succeeded", "invoice.payment_failed"},
        s \in Subs \cup {NULL}}

UpdatedEvents ==
    {[NoEvent EXCEPT !.type = "customer.subscription.updated", !.sub = s,
                     !.status = st, !.T = t, !.items = its] :
        s \in Subs, st \in GatewayStatuses, t \in PeriodEnds,
        its \in {{Item(BASE_PRICE_ID, 1)}}
                 \cup {{Item(BASE_PRICE_ID, 1), Item(CHILD_PRICE_ID, q)} : q \in 1..MaxChildren}}

DeletedEvents ==
    {[NoEvent EXCEPT !.type = "customer.subscription.deleted", !.sub = s] : s \in Subs}

OtherEvents == {[NoEvent EXCEPT !.type = "customer.created"]}

Events == CheckoutEvents \cup InvoiceEvents \cup UpdatedEvents \cup DeletedEvents
              \cup OtherEvents

ChildrenOnStripe(items) ==
    IF \E it \in items : it.price = CHILD_PRICE_ID
    THEN (CHOOSE it \in items : it.price = CHILD_PRICE_ID).quantity
    ELSE 0

CheckoutComplete(ev) ==
    ev.customer # NULL /\ ev.sub # NULL /\ ev.app_user_id # NULL

\* Whether the branch of this event calls stripe.Subscription.retrieve.
Retrieves(ev) ==
    \/ ev.type = "checkout.session.completed" /\ CheckoutComplete(ev)
    \/ ev.type = "invoice.payment_succeeded" /\ ev.sub # NULL

\* The bodies of the requests that fail verification: every invoice and
\* deletion event, and one checkout and one update event per subscription
\* and address.
RejectedBodies ==
    InvoiceEvents \cup DeletedEvents \cup OtherEvents
        \cup {ev \in CheckoutEvents : CheckoutComplete(ev) /\ ev.app_user_id = Uuids[1]}
        \cup {ev \in UpdatedEvents : ev.status = "canceled" /\ ev.T = 1
                                      /\ ChildrenOnStripe(ev.items) = 0}

GwFailure == [ok |-> FALSE, status |-> "", T |-> 0]

GwResponses ==
    {GwFailure} \cup {[ok |-> TRUE, status |-> st, T |-> t] :
                        st \in GatewayStatuses, t \in PeriodEnds}

\* The POST /webhook requests: the signature and payload checks, the event
\* and, for the branches that ask the gateway, the gateway's answer (only
\* current_period_end is read of it when a payment succeeded).
WebhookRequests ==
    {[sig_ok |-> TRUE, payload_ok |-> TRUE, ev |-> ev, resp |-> GwFailure] :
        ev \in Events}
    \cup {[sig_ok |-> TRUE, payload_ok |-> TRUE, ev |-> ev, resp |-> resp] :
        ev \in {e \in CheckoutEvents : Retrieves(e)}, resp \in GwResponses}
    \cup {[sig_ok |-> TRUE, payload_ok |-> TRUE, ev |-> ev, resp |-> resp] :
        ev \in {e \in InvoiceEvents : Retrieves(e)},
        resp \in {r \in GwResponses : r.status = "active"}}
    \cup {[sig_ok |-> c[1], payload_ok |-> c[2], ev |-> ev, resp |-> GwFailure] :
        c \in {<<FALSE, TRUE>>, <<TRUE, FALSE>>, <<FALSE, FALSE>>}, ev \in RejectedBodies}

\* The completed checkouts that link a member to a subscription.
LinkRequests ==
    {rq \in WebhookRequests :
        /\ rq.sig_ok /\ rq.payload_ok
        /\ rq.ev.type = "checkout.session.completed" /\ CheckoutComplete(rq.ev)
        /\ rq.ev.app_user_id = Uuids[1] /\ rq.ev.email \in Emails
        /\ rq.resp.ok /\ rq.resp.status = "active" /\ rq.resp.T = MaxTime + 1}

\* ------------------------------------------------- webhook_listener.py
\* The Register form as submitted: every required field filled in, or one of
\* them left empty.
RegInputs ==
    LET filled == {[name |-> n, email |-> e, password |-> pw, children |-> c] :
                      n \in Names, e \in Emails, pw \in Passwords, c \in 0..MaxChildren}
        one == CHOOSE f \in filled : f.children = 0
    IN  filled \cup {[one EXCEPT !.name = ""], [one EXCEPT !.email = ""],
                     [one EXCEPT !.password = ""]}

\* Variant: a trialing subscription does not activate the certificate.
OnCheckoutCompleted_active_only(tbl, ev, resp, t) ==
    IF ~CheckoutComplete(ev) \/ ~resp.ok THEN tbl
    ELSE LET sub_status == resp.status
             cert_status == IF sub_status = "active" THEN "active" ELSE "pending_payment"
             expiry_iso == IsoFormat(resp.T)
             member == get_member_by_email(tbl, ev.email)
         IN  IF member = 0 THEN tbl
             ELSE update_subscription_status(
                      update_member_subscription_details(
                          tbl, tbl[member].email, ev.customer, ev.sub, sub_status, t),
                      ev.sub, sub_status, cert_status, expiry_iso, t)

\* The checkout.session.completed branch.
OnCheckoutCompleted(tbl, ev, resp, t) ==
    IF ~CheckoutComplete(ev) \/ ~resp.ok THEN tbl
    ELSE LET sub_status == resp.status
             cert_status == IF sub_status = "active" \/ sub_status = "trialing"
                            THEN "active" ELSE "pending_payment"
             expiry_iso == IsoFormat(resp.T)
             member == get_member_by_email(tbl, ev.email)
         IN  IF member = 0 THEN tbl
             ELSE update_subscription_status(
                      update_member_subscription_details(
                          tbl, tbl[member].email, ev.customer, ev.sub, sub_status, t),
                      ev.sub, sub_status, cert_status, expiry_iso, t)

\* Variant: a renewal adds the reported period end to the stored expiry
\* instead of replacing it.
OnPaymentSucceeded_extends(tbl, ev, resp, t) ==
    IF ev.sub = NULL \/ ~resp.ok THEN tbl
    ELSE [i \in DOMAIN tbl |->
            IF tbl[i].stripe_subscription_id = ev.sub
            THEN [tbl[i] EXCEPT !.subscription_status = "active",
                                !.certificate_status = "active",
                                !.certificate_expiry_date =
                                    IsoFormat(tbl[i].certificate_expiry_date.t + resp.T),
                                !.updated_at = t]
            ELSE tbl[i]]

\* Variant: a renewal is applied only to members whose certificate has not
\* been marked expired.
OnPaymentSucceeded_skips_expired(tbl, ev, resp, t) ==
    IF ev.sub = NULL \/ ~resp.ok THEN tbl
    ELSE [i \in DOMAIN tbl |->
            IF tbl[i].stripe_subscription_id = ev.sub
               /\ tbl[i].certificate_status # "expired"
            THEN [tbl[i] EXCEPT !.subscription_status = "active",
                                !.certificate_status = "active",
                                !.certificate_expiry_date = IsoFormat(resp.T),
                                !.updated_at = t]
            ELSE tbl[i]]

OnPaymentSucceeded(tbl, ev, resp, t) ==
    IF ev.sub = NULL \/ ~resp.ok THEN tbl
    ELSE update_subscription_status(tbl, ev.sub, "active", "active", IsoFormat(resp.T), t)

\* Variant: a failed payment leaves the certificate active until it expires.
OnPaymentFailed_keeps_certificate(tbl, ev, t) ==
    IF ev.sub = NULL THEN tbl
    ELSE update_subscription_status(tbl, ev.sub, "past_due", "active",
                                    IsoFormat(t - PAST_DAYS), t)

\* Variant: a failed payment sets the expiry to the handling time itself.
OnPaymentFailed_expires_now(tbl, ev, t) ==
    IF ev.sub = NULL THEN tbl
    ELSE update_subscription_status(tbl, ev.sub, "past_due", "expired", IsoFormat(t), t)

OnPaymentFailed(tbl, ev, t) ==
    IF ev.sub = NULL THEN tbl
    ELSE update_subscription_status(tbl, ev.sub, "past_due", "expired",
                                    IsoFormat(t - PAST_DAYS), t)

\* Variant: a cancelled subscription marks the certificate expired.
OnSubscriptionUpdated_canceled_expires(tbl, ev, t) ==
    LET new_status == ev.status
        cert_status == IF new_status = "active" \/ new_status = "trialing" THEN "active"
                       ELSE "expired"
        expiry_iso == IsoFormat(ev.T)
        member == get_member_by_stripe_subscription_id(tbl, ev.sub)
        children_on_stripe == ChildrenOnStripe(ev.items)
        tbl1 == IF member # 0 /\ tbl[member].children # children_on_stripe
                THEN update_children_count(tbl, tbl[member].email, children_on_stripe, t)
                ELSE tbl
    IN  update_subscription_status(tbl1, ev.sub, new_status, cert_status, expiry_iso, t)

\* Variant: the children count is not compared with the subscription's items.
OnSubscriptionUpdated_no_reconcile(tbl, ev, t) ==
    LET new_status == ev.status
        cert_status == IF new_status = "active" \/ new_status = "trialing" THEN "active"
                       ELSE IF new_status = "canceled" THEN "revoked"
                       ELSE "expired"
    IN  update_subscription_status(tbl, ev.sub, new_status, cert_status, IsoFormat(ev.T), t)

\* The customer.subscription.updated branch.
OnSubscriptionUpdated(tbl, ev, t) ==
    LET new_status == ev.status
        cert_status == IF new_status = "active" \/ new_status = "trialing" THEN "active"
                       ELSE IF new_status = "canceled" THEN "revoked"
                       ELSE "expired"
        expiry_iso == IsoFormat(ev.T)
        member == get_member_by_stripe_subscription_id(tbl, ev.sub)
        children_on_stripe == ChildrenOnStripe(ev.items)
        tbl1 == IF member # 0 /\ tbl[member].children # children_on_stripe
                THEN update_children_count(tbl, tbl[member].email, children_on_stripe, t)
                ELSE tbl
    IN  update_subscription_status(tbl1, ev.sub, new_status, cert_status, expiry_iso, t)

\* Variant: the expiry of a cancelled subscription is set to the handling
\* time itself.
OnSubscriptionDeleted_expires_now(tbl, ev, t) ==
    update_subscription_status(tbl, ev.sub, "canceled", "revoked", IsoFormat(t), t)

OnSubscriptionDeleted(tbl, ev, t) ==
    update_subscription_status(tbl, ev.sub, "canceled", "revoked",
                               IsoFormat(t - PAST_DAYS), t)

\* Variant: the event is read from the payload without construct_event's
\* signature check.
stripe_webhook_unverified(tbl, secret, sig_ok, payload_ok, ev, resp, t) ==
    IF secret = NULL THEN [code |-> 500, tbl |-> tbl, calls |-> <<>>]
    ELSE IF ~payload_ok THEN [code |-> 400, tbl |-> tbl, calls |-> <<>>]
    ELSE [code |-> IF sig_ok THEN 200 ELSE 400,
          tbl |-> CASE ev.type = "checkout.session.completed" ->
                           OnCheckoutCompleted(tbl, ev, resp, t)
                    [] ev.type = "invoice.payment_succeeded" ->
                           OnPaymentSucceeded(tbl, ev, resp, t)
                    [] ev.type = "invoice.payment_failed" ->
                           OnPaymentFailed(tbl, ev, t)
                    [] ev.type = "customer.subscription.updated" ->
                           OnSubscriptionUpdated(tbl, ev, t)
                    [] ev.type = "customer.subscription.deleted" ->
                           OnSubscriptionDeleted(tbl, ev, t)
                    [] OTHER -> tbl,
          calls |-> <<>>]

\* The response code of POST /webhook and the table it leaves.
stripe_webhook(tbl, secret, sig_ok, payload_ok, ev, resp, t) ==
    IF secret = NULL THEN [code |-> 500, tbl |-> tbl, calls |-> <<>>]
    ELSE IF ~sig_ok \/ ~payload_ok THEN [code |-> 400, tbl |-> tbl, calls |-> <<>>]
    ELSE [code |-> 200,
          tbl |-> CASE ev.type = "checkout.session.completed" ->
                           OnCheckoutCompleted(tbl, ev, resp, t)
                    [] ev.type = "invoice.payment_succeeded" ->
                           OnPaymentSucceeded(tbl, ev, resp, t)
                    [] ev.type = "invoice.payment_failed" ->
                           OnPaymentFailed(tbl, ev, t)
                    [] ev.type = "customer.subscription.updated" ->
                           OnSubscriptionUpdated(tbl, ev, t)
                    [] ev.type = "customer.subscription.deleted" ->
                           OnSubscriptionDeleted(tbl, ev, t)
                    [] OTHER -> tbl,
          calls |-> IF Retrieves(ev) THEN <<"retrieve">> ELSE <<>>]

\* ------------------------------------------------------------- app.py
Procs == {"p1", "p2"}

IdleReg ==
    [pc |-> "idle", name |-> "", email |-> "", password |-> "", children |-> 0,
     user_id |-> NULL, cert_id |-> NULL, t |-> 0, outcome |-> ""]

\* The form's checks before anything is created.
RegPrecheck(tbl, name, email, password) ==
    IF name = "" \/ email = "" \/ password = "" THEN "required"
    ELSE IF get_member_by_email(tbl, email) # 0 THEN "duplicate"
    ELSE "ok"

\* The placeholder expiry is computed at time t0, before the checkout session
\* is requested; add_member stamps the row at time t.
RegRow(name, email, password, children, user_id, cert_id, t0, t) ==
    NewRow(user_id, name, email, HashPw(password), children, cert_id,
           IsoFormat(t0 + PLACEHOLDER_DAYS), Encrypt("answers"), NULL, NULL, t)

\* The outcomes of the Register handler that the page reports to the user.
HandledOutcomes == {"required", "duplicate", "redirect", "gateway_error"}

\* Variant: the row is persisted before the checkout session is requested.
RegisterHandler_persists_first(tbl, name, email, password, children, gw_ok, t) ==
    LET pre == RegPrecheck(tbl, name, email, password)
        user_id == generate_unique_id(1, UsedUuids)
        cert_id == generate_unique_id(2, UsedUuids)
        checkout == create_stripe_checkout_session(email, children, user_id, gw_ok)
        ins == add_member(tbl, RegRow(name, email, password, children, user_id, cert_id, t, t))
    IN  IF pre # "ok" THEN [outcome |-> pre, tbl |-> tbl, calls |-> <<>>]
        ELSE IF ins.raised
        THEN [outcome |-> "fault_IntegrityError", tbl |-> tbl, calls |-> <<>>]
        ELSE IF checkout.url # <<>>
        THEN [outcome |-> "redirect", tbl |-> ins.tbl, calls |-> <<"checkout.create">>]
        ELSE [outcome |-> "gateway_error", tbl |-> ins.tbl,
              calls |-> <<"checkout.create">>]

\* The Register form handler, run from submit to the end of the script.
RegisterHandler(tbl, name, email, password, children, gw_ok, t) ==
    LET pre == RegPrecheck(tbl, name, email, password)
        user_id == generate_unique_id(1, UsedUuids)
        cert_id == generate_unique_id(2, UsedUuids)
        checkout == create_stripe_checkout_session(email, children, user_id, gw_ok)
        ins == add_member(tbl, RegRow(name, email, password, children, user_id, cert_id, t, t))
    IN  IF pre # "ok" THEN [outcome |-> pre, tbl |-> tbl, calls |-> <<>>]
        ELSE IF checkout.url # <<>>
        THEN IF ins.raised
             THEN [outcome |-> "fault_IntegrityError", tbl |-> tbl,
                   calls |-> <<"checkout.create">>]
             ELSE [outcome |-> "redirect", tbl |-> ins.tbl,
                   calls |-> <<"checkout.create">>]
        ELSE [outcome |-> "gateway_error", tbl |-> tbl, calls |-> <<"checkout.create">>]

\* Variant: the count is stored before the gateway is asked.
ManageChildrenHandler_stores_first(tbl, gw, email, new_count, retrieve_ok, modify_ok, t) ==
    LET m == get_member_by_email(tbl, email)
        sub == tbl[m].stripe_subscription_id
        r == update_stripe_subscription_children(gw[sub], new_count, retrieve_ok, modify_ok)
        stored == update_children_count(tbl, email, new_count, t)
    IN  IF m = 0
        THEN [outcome |-> "nomember", tbl |-> tbl, gw |-> gw, sub |-> NULL, calls |-> <<>>]
        ELSE IF sub = NULL
        THEN [outcome |-> "nosub", tbl |-> tbl, gw |-> gw, sub |-> NULL, calls |-> <<>>]
        ELSE IF new_count = tbl[m].children
        THEN [outcome |-> "nochange", tbl |-> tbl, gw |-> gw, sub |-> sub, calls |-> <<>>]
        ELSE [outcome |-> IF r.ret THEN "updated" ELSE "failed", tbl |-> stored,
              gw |-> [gw EXCEPT ![sub] = r.items], sub |-> sub, calls |-> r.calls]

\* The Manage Children page after "Update Children Count" is pressed.
ManageChildrenHandler(tbl, gw, email, new_count, retrieve_ok, modify_ok, t) ==
    LET m == get_member_by_email(tbl, email)
        sub == tbl[m].stripe_subscription_id
        r == update_stripe_subscription_children(gw[sub], new_count, retrieve_ok, modify_ok)
    IN  IF m = 0
        THEN [outcome |-> "nomember", tbl |-> tbl, gw |-> gw, sub |-> NULL, calls |-> <<>>]
        ELSE IF sub = NULL
        THEN [outcome |-> "nosub", tbl |-> tbl, gw |-> gw, sub |-> NULL, calls |-> <<>>]
        ELSE IF new_count = tbl[m].children
        THEN [outcome |-> "nochange", tbl |-> tbl, gw |-> gw, sub |-> sub, calls |-> <<>>]
        ELSE IF r.ret
        THEN [outcome |-> "updated",
              tbl |-> update_children_count(tbl, email, new_count, t),
              gw |-> [gw EXCEPT ![sub] = r.items], sub |-> sub, calls |-> r.calls]
        ELSE [outcome |-> "failed", tbl |-> tbl,
              gw |-> [gw EXCEPT ![sub] = r.items], sub |-> sub, calls |-> r.calls]

\* ------------------------------------------------- values before a page
\* certificate_expiry_date as a page can read it: NULL, the empty string, an
\* ISO string with an offset, with Z or without a zone, or text that is no date.
ExpiryStrings ==
    {[kind |-> "null", t |-> 0, tz |-> ""], [kind |-> "empty", t |-> 0, tz |-> ""],
     [kind |-> "malformed", t |-> 0, tz |-> ""]}
    \cup {[kind |-> "iso", t |-> t, tz |-> tz] :
              t \in 0..(MaxTime + 1), tz \in {"+00:00", "Z", ""}}

CertStatuses == {"pending_payment", "active", "expired", "revoked"}

\* expiry, status: the values read from the row; children: the number typed
\* into the form; checked, valid, at: the validity computed, and when;
\* quoted, cost: the monthly cost computed.
NoPage ==
    [expiry |-> [kind |-> "null", t |-> 0, tz |-> ""], status |-> "pending_payment",
     children |-> 0, checked |-> FALSE, valid |-> FALSE, at |-> 0,
     quoted |-> FALSE, cost |-> 0]

PageInputs ==
    {[NoPage EXCEPT !.expiry = e, !.status = st, !.children = c] :
        e \in ExpiryStrings, st \in CertStatuses, c \in 0..MaxQuote}

\* A handler of POST /webhook between its calls to the gateway and the store.
\* pc: idle, then w1 (before the first UPDATE of a branch that issues two),
\* w2 (before update_subscription_status), done; ev: the event; status,
\* cert, expiry: the values the branch computed for update_subscription_status;
\* kids: the quantity read from the event's items; failed: the gateway call
\* raised; email: the address of the member the branch read; before: the
\* certificate fields of the member when the first UPDATE ran; latest: this
\* handler issued the most recent UPDATE; overlap: another handler was between
\* its first and its last call while this one ran.
IdleHandler ==
    [pc |-> "idle", ev |-> NoEvent, status |-> "", cert |-> "",
     expiry |-> [kind |-> "null", t |-> 0, tz |-> ""], kids |-> 0, failed |-> FALSE,
     email |-> NULL, before |-> <<>>, latest |-> FALSE, overlap |-> FALSE]

\* ----------------------------------------------------------- the system
\* The store is created empty and nobody is logged in.
InitStore ==
    /\ page = NoPage
    /\ handlers = [p \in Procs |-> IdleHandler]
    /\ remote = [s \in Subs |-> [status |-> "active", T |-> MaxTime + 1]]
    /\ members = <<>>
    /\ now = 1
    /\ session = NULL
    /\ last = NoLast
    /\ regs = [p \in Procs |-> IdleReg]

\* Subscriptions as the checkout of a member without children creates them;
\* the webhook secret is read from the environment, where it may be missing.
Init ==
    /\ InitStore
    /\ endpoint_secret \in {NULL, "whsec"}
    /\ gateway = [s \in Subs |-> {Item(BASE_PRICE_ID, 1)}]

\* One subscription with any of the line-item sets, the others as checkout
\* creates them; the listener is configured.
InitChildren ==
    /\ InitStore
    /\ endpoint_secret = "whsec"
    /\ gateway \in {g \in [Subs -> ItemSets] :
                        \E s \in Subs : \A o \in Subs \ {s} : g[o] = {Item(BASE_PRICE_ID, 1)}}

Tick ==
    /\ now < MaxTime
    /\ now' = now + 1
    /\ UNCHANGED <<members, gateway, session, endpoint_secret, last, regs, page, handlers, remote>>

Register(in, gw_ok) ==
    /\ session = NULL
    /\ LET r == RegisterHandler(members, in.name, in.email, in.password, in.children,
                                gw_ok, now)
       IN  /\ members' = r.tbl
           /\ last' = [NoLast EXCEPT !.op = "register", !.email = in.email,
                                     !.outcome = r.outcome,
                                     !.gw_ok = (r.calls # <<>> /\ gw_ok),
                                     !.calls = r.calls]
    /\ UNCHANGED <<gateway, now, session, endpoint_secret, regs, page, handlers, remote>>

Login(email, password) ==
    /\ session = NULL
    /\ LET m == get_member_by_email(members, email)
           ok == m # 0 /\ members[m].password_hash = HashPw(password)
       IN  /\ session' = IF ok THEN members[m].email ELSE NULL
           /\ last' = [NoLast EXCEPT !.op = "login",
                                     !.outcome = IF ok THEN "welcome" ELSE "invalid"]
    /\ UNCHANGED <<members, gateway, now, endpoint_secret, regs, page, handlers, remote>>

Logout ==
    /\ session # NULL
    /\ session' = NULL
    /\ last' = [NoLast EXCEPT !.op = "logout"]
    /\ UNCHANGED <<members, gateway, now, endpoint_secret, regs, page, handlers, remote>>

ManageChildren(new_count, retrieve_ok, modify_ok) ==
    /\ session # NULL
    /\ LET r == ManageChildrenHandler(members, gateway, session, new_count,
                                      retrieve_ok, modify_ok, now)
       IN  /\ members' = r.tbl
           /\ gateway' = r.gw
           /\ session' = IF r.outcome = "nomember" THEN NULL ELSE session
           /\ last' = [NoLast EXCEPT !.op = "manage_children", !.sub = r.sub,
                                     !.qty = IF r.calls # <<>> THEN new_count ELSE 0,
                                     !.outcome = r.outcome,
                                     !.gw_ok = (r.outcome = "updated"),
                                     !.calls = r.calls]
    /\ UNCHANGED <<now, endpoint_secret, regs, page, handlers, remote>>

\* What is remembered of a handled webhook request: the event type, the
\* response code and, for the invoice and deletion events, the subscription
\* and the gateway's answer, which is all those events carry.
Recorded(ev) ==
    ev.type \in {"invoice.payment_succeeded", "invoice.payment_failed",
                 "customer.subscription.deleted"}

WebhookRecord(rq, r) ==
    LET ev == rq.ev
        resp == rq.resp
    IN
    IF r.code # 200 \/ ~Recorded(ev)
    THEN [NoLast EXCEPT !.op = "webhook", !.type = ev.type, !.code = r.code,
                        !.sig_ok = rq.sig_ok, !.payload_ok = rq.payload_ok,
                        !.calls = r.calls]
    ELSE [NoLast EXCEPT !.op = "webhook", !.type = ev.type, !.code = r.code,
                        !.sub = ev.sub, !.gw_ok = (r.calls # <<>> /\ resp.ok),
                        !.T = IF r.calls # <<>> THEN resp.T ELSE 0,
                        !.calls = r.calls]

Webhook(rq) ==
    /\ LET ev == rq.ev
           r == stripe_webhook(members, endpoint_secret, rq.sig_ok, rq.payload_ok,
                               ev, rq.resp, now)
           rec == WebhookRecord(rq, r)
           same_sub == r.code = 200 /\ Recorded(ev) /\ ev.sub # NULL
                         /\ last.op = "webhook" /\ last.sub = ev.sub
       IN  /\ members' = r.tbl
           /\ last' = [rec EXCEPT
                         !.replay = (same_sub
                                     /\ [last EXCEPT !.replay = FALSE, !.after = ""] = rec),
                         !.after = IF same_sub THEN last.type ELSE ""]
    /\ UNCHANGED <<gateway, now, session, endpoint_secret, regs, page, handlers, remote>>

Next ==
    \/ Tick
    \/ \E in \in RegInputs, gw_ok \in BOOLEAN : Register(in, gw_ok)
    \/ \E rq \in WebhookRequests : Webhook(rq)

Spec == Init /\ [][Next]_vars

\* The members' pages: registration, login and the Manage Children page, with
\* the completed checkouts that link a member to a subscription.
NextChildren ==
    \/ Tick
    \/ \E in \in RegInputs, gw_ok \in BOOLEAN : Register(in, gw_ok)
    \/ \E email \in Emails, password \in Passwords \cup {"wrong"} : Login(email, password)
    \/ Logout
    \/ \E new_count \in 0..MaxChildren, retrieve_ok \in BOOLEAN, modify_ok \in BOOLEAN :
            ManageChildren(new_count, retrieve_ok, modify_ok)
    \/ \E rq \in LinkRequests : Webhook(rq)

SpecChildren == InitChildren /\ [][NextChildren]_vars

\* ------------------------------------------- the pages and the lifecycle
\* The events of one subscription's life as the gateway sends them for a
\* member who paid: the checkout that links the member, renewals, failed
\* payments and the cancellation.
LifecycleRequests ==
    {rq \in LinkRequests : rq.ev.sub = "sub_1"}
    \cup {rq \in WebhookRequests :
            /\ rq.sig_ok /\ rq.payload_ok /\ rq.ev.sub = "sub_1"
            /\ \/ rq.ev.type = "invoice.payment_succeeded" /\ rq.resp.ok
                                                           /\ rq.resp.T = MaxTime + 1
               \/ rq.ev.type = "invoice.payment_failed"
               \/ rq.ev.type = "customer.subscription.deleted"}

InitPages ==
    /\ InitStore
    /\ endpoint_secret = "whsec"
    /\ gateway = [s \in Subs |-> {Item(BASE_PRICE_ID, 1)}]

\* A step of one of the pages of app.py.
PageStep ==
    \/ \E in \in RegInputs, gw_ok \in BOOLEAN : Register(in, gw_ok)
    \/ \E email \in Emails, password \in Passwords \cup {"wrong"} : Login(email, password)
    \/ Logout
    \/ \E new_count \in 0..MaxChildren, retrieve_ok \in BOOLEAN, modify_ok \in BOOLEAN :
            ManageChildren(new_count, retrieve_ok, modify_ok)

NextPages ==
    \/ Tick
    \/ PageStep
    \/ \E rq \in LifecycleRequests : Webhook(rq)

SpecPages == InitPages /\ [][NextPages]_vars

\* ------------------------------------------------ the pages' computations
\* Any expiry and status before the View Certificate page, any number of
\* children typed into the Register form.
InitPure ==
    /\ members = <<>>
    /\ now = 1
    /\ session = NULL
    /\ endpoint_secret = "whsec"
    /\ last = NoLast
    /\ regs = [p \in Procs |-> IdleReg]
    /\ gateway = [s \in Subs |-> {Item(BASE_PRICE_ID, 1)}]
    /\ handlers = [p \in Procs |-> IdleHandler]
    /\ remote = [s \in Subs |-> [status |-> "active", T |-> MaxTime + 1]]
    /\ page \in PageInputs

\* The Register form shows the estimated monthly cost.
ShowCost ==
    /\ page' = [page EXCEPT !.quoted = TRUE,
                            !.cost = calculate_total_monthly_cost(page.children)]
    /\ UNCHANGED <<members, gateway, now, session, endpoint_secret, last, regs, handlers, remote>>

\* The View Certificate page computes whether the certificate is valid.
ViewCertificate ==
    /\ page' = [page EXCEPT !.checked = TRUE, !.at = now,
                            !.valid = is_certificate_valid_from_db(page.expiry,
                                                                   page.status, now)]
    /\ UNCHANGED <<members, gateway, now, session, endpoint_secret, last, regs, handlers, remote>>

NextPure == Tick \/ ShowCost \/ ViewCertificate

SpecPure == InitPure /\ [][NextPure]_vars

\* ------------------------------------------- registrations, interleaved
\* Two sessions run the Register handler at once; each runs it once, since
\* the page blocks a second submission of the same session. A handler is cut
\* at its calls to the store and to the gateway.
RaceInputs ==
    LET filled == {[name |-> n, email |-> e, password |-> pw, children |-> c] :
                      n \in Names, e \in AllEmails, pw \in Passwords, c \in 0..MaxChildren}
        one == CHOOSE f \in filled : f.children = 0
    IN  filled \cup {[one EXCEPT !.email = ""]}

\* Identifiers held by the handlers that have not inserted yet.
HeldUuids == {regs[p].user_id : p \in Procs} \cup {regs[p].cert_id : p \in Procs}

\* Submit: the required fields, the lookup by email, then the two uuid4 values
\* and the placeholder expiry.
RegSubmit(p, in) ==
    /\ regs[p].pc = "idle"
    /\ LET pre == RegPrecheck(members, in.name, in.email, in.password)
           used == UsedUuids \cup HeldUuids
       IN  regs' = [regs EXCEPT ![p] =
               IF pre # "ok"
               THEN [IdleReg EXCEPT !.pc = "done", !.email = in.email, !.outcome = pre]
               ELSE [pc |-> "checked", name |-> in.name, email |-> in.email,
                     password |-> in.password, children |-> in.children,
                     user_id |-> generate_unique_id(1, used),
                     cert_id |-> generate_unique_id(2, used),
                     t |-> now, outcome |-> ""]]
    /\ UNCHANGED <<members, gateway, now, session, endpoint_secret, last, page, handlers, remote>>

\* The checkout session is requested from the gateway.
RegCheckout(p, gw_ok) ==
    /\ regs[p].pc = "checked"
    /\ LET r == regs[p]
           checkout == create_stripe_checkout_session(r.email, r.children, r.user_id, gw_ok)
       IN  regs' = [regs EXCEPT ![p] =
               IF checkout.url # <<>>
               THEN [r EXCEPT !.pc = "paying"]
               ELSE [r EXCEPT !.pc = "done", !.outcome = "gateway_error"]]
    /\ UNCHANGED <<members, gateway, now, session, endpoint_secret, last, page, handlers, remote>>

\* add_member is called; an insert the store refuses raises
\* sqlite3.IntegrityError, which the handler does not catch.
RegInsert(p) ==
    /\ regs[p].pc = "paying"
    /\ LET r == regs[p]
           ins == add_member(members, RegRow(r.name, r.email, r.password, r.children,
                                             r.user_id, r.cert_id, r.t, now))
       IN  /\ members' = ins.tbl
           /\ regs' = [regs EXCEPT ![p] =
                   [r EXCEPT !.pc = "done",
                             !.outcome = IF ins.raised THEN "fault_IntegrityError"
                                         ELSE "redirect"]]
    /\ UNCHANGED <<gateway, now, session, endpoint_secret, last, page, handlers, remote>>

NextRace ==
    \/ Tick
    \/ \E p \in Procs, in \in RaceInputs : RegSubmit(p, in)
    \/ \E p \in Procs, gw_ok \in BOOLEAN : RegCheckout(p, gw_ok)
    \/ \E p \in Procs : RegInsert(p)

SpecRace == Init /\ [][NextRace]_vars

\* ----------------------------------------------- webhooks, interleaved
\* Two workers of the listener handle one request each for subscription
\* "sub_1"; a handler is cut at its calls to the gateway and to the store,
\* each store call being one committed statement.
HandlerEvents ==
    {ev \in CheckoutEvents : /\ CheckoutComplete(ev) /\ ev.sub = "sub_1"
                             /\ ev.customer = "cus_1" /\ ev.app_user_id = Uuids[1]
                             /\ ev.email # NULL}
    \cup {ev \in InvoiceEvents : ev.sub = "sub_1"}
    \cup {ev \in UpdatedEvents : /\ ev.sub = "sub_1" /\ ev.T = 1
                                /\ ev.status \in {"active", "canceled"}
                                /\ ChildrenOnStripe(ev.items) \in {0, 1}}
    \cup {ev \in DeletedEvents : ev.sub = "sub_1"}

\* The member as Register left it, or as an earlier checkout linked it; the
\* subscription at the gateway is still incomplete or already active.
InitHandlers ==
    LET row == RegRow(CHOOSE n \in Names : TRUE, "a@x.com",
                      CHOOSE pw \in Passwords : TRUE, 0, Uuids[1], Uuids[2], 1, 1)
        link == CHOOSE rq \in LinkRequests : rq.ev.sub = "sub_1" /\ rq.ev.email = "a@x.com"
    IN  /\ members \in {<<row>>, OnCheckoutCompleted(<<row>>, link.ev, link.resp, 1)}
        /\ now = 1
        /\ session = NULL
        /\ endpoint_secret = "whsec"
        /\ last = NoLast
        /\ regs = [p \in Procs |-> IdleReg]
        /\ page = NoPage
        /\ gateway = [s \in Subs |-> {Item(BASE_PRICE_ID, 1)}]
        /\ handlers = [p \in Procs |-> IdleHandler]
        /\ \E st \in {"incomplete", "active"}, T \in PeriodEnds :
              remote = [s \in Subs |-> [status |-> st, T |-> T]]

\* The first payment goes through at the gateway.
GatewayActivates ==
    /\ remote["sub_1"].status = "incomplete"
    /\ remote' = [remote EXCEPT !["sub_1"].status = "active"]
    /\ UNCHANGED <<members, gateway, now, session, endpoint_secret, last, regs, page, handlers>>

Running(q) == handlers[q].pc \in {"w1", "w2"}

\* A handler that starts or writes next to a running one overlaps with it.
MarkOverlap(hs, p) ==
    IF \E q \in Procs \ {p} : Running(q)
    THEN [q \in Procs |-> [hs[q] EXCEPT !.overlap = (q = p \/ Running(q) \/ hs[q].overlap)]]
    ELSE hs

\* The handler that issued the statement becomes the latest writer.
MarkLatest(hs, p) == [q \in Procs |-> [hs[q] EXCEPT !.latest = (q = p)]]

\* The request is verified and the branch runs up to its first store write:
\* stripe.Subscription.retrieve for a completed checkout and a succeeded
\* payment (ok: it does not raise), the lookup by subscription id for an
\* updated subscription. The gateway reports a succeeded payment only for a
\* subscription it holds active.
HStart(p, ev, ok) ==
    /\ handlers[p].pc = "idle"
    /\ ev.type = "invoice.payment_succeeded" => remote[ev.sub].status = "active"
    /\ LET h == [IdleHandler EXCEPT !.ev = ev]
           sub_status == remote[ev.sub].status
           member == get_member_by_stripe_subscription_id(members, ev.sub)
           started ==
             CASE ev.type = "checkout.session.completed" ->
                    IF ~ok THEN [h EXCEPT !.pc = "done", !.failed = TRUE]
                    ELSE [h EXCEPT !.pc = "w1", !.status = sub_status,
                                   !.cert = IF sub_status = "active" \/ sub_status = "trialing"
                                            THEN "active" ELSE "pending_payment",
                                   !.expiry = IsoFormat(remote[ev.sub].T)]
               [] ev.type = "invoice.payment_succeeded" ->
                    IF ~ok THEN [h EXCEPT !.pc = "done", !.failed = TRUE]
                    ELSE [h EXCEPT !.pc = "w2", !.status = "active", !.cert = "active",
                                   !.expiry = IsoFormat(remote[ev.sub].T)]
               [] ev.type = "customer.subscription.updated" ->
                    [h EXCEPT !.pc = IF member # 0
                                        /\ members[member].children # ChildrenOnStripe(ev.items)
                                     THEN "w1" ELSE "w2",
                              !.status = ev.status,
                              !.cert = IF ev.status = "active" \/ ev.status = "trialing"
                                       THEN "active"
                                       ELSE IF ev.status = "canceled" THEN "revoked"
                                       ELSE "expired",
                              !.expiry = IsoFormat(ev.T),
                              !.kids = ChildrenOnStripe(ev.items),
                              !.email = IF member # 0 THEN members[member].email ELSE NULL]
               [] OTHER -> [h EXCEPT !.pc = "w2"]
       IN  handlers' = MarkOverlap([handlers EXCEPT ![p] = started], p)
    /\ UNCHANGED <<members, gateway, now, session, endpoint_secret, last, regs, page, remote>>

\* The first of a branch's two statements: for a completed checkout the lookup
\* by the session's address (no row is inserted or deleted meanwhile) and
\* update_member_subscription_details; for an updated subscription
\* update_children_count.
HWrite1(p) ==
    /\ handlers[p].pc = "w1"
    /\ LET h == handlers[p]
           member == get_member_by_email(members, h.ev.email)
       IN  IF h.ev.type = "checkout.session.completed"
           THEN IF member = 0
                THEN /\ handlers' = [handlers EXCEPT ![p].pc = "done"]
                     /\ UNCHANGED members
                ELSE /\ members' = update_member_subscription_details(
                                       members, members[member].email, h.ev.customer,
                                       h.ev.sub, h.status, now)
                     /\ handlers' = MarkLatest(
                            [handlers EXCEPT ![p].pc = "w2",
                                             ![p].email = members[member].email,
                                             ![p].before =
                                                 <<members[member].certificate_status,
                                                   members[member].certificate_expiry_date>>],
                            p)
           ELSE /\ members' = update_children_count(members, h.email, h.kids, now)
                /\ handlers' = MarkLatest([handlers EXCEPT ![p].pc = "w2"], p)
    /\ UNCHANGED <<gateway, now, session, endpoint_secret, last, regs, page, remote>>

\* update_subscription_status, the last statement of every branch; a failed
\* payment and a deletion compute the expiry in the call's arguments.
HWrite2(p) ==
    /\ handlers[p].pc = "w2"
    /\ LET h == handlers[p]
           w == CASE h.ev.type = "invoice.payment_failed" ->
                       [h EXCEPT !.status = "past_due", !.cert = "expired",
                                 !.expiry = IsoFormat(now - PAST_DAYS)]
                  [] h.ev.type = "customer.subscription.deleted" ->
                       [h EXCEPT !.status = "canceled", !.cert = "revoked",
                                 !.expiry = IsoFormat(now - PAST_DAYS)]
                  [] OTHER -> h
       IN  /\ members' = update_subscription_status(members, h.ev.sub, w.status, w.cert,
                                                    w.expiry, now)
           /\ handlers' = MarkLatest([handlers EXCEPT ![p] = [w EXCEPT !.pc = "done"]], p)
    /\ UNCHANGED <<gateway, now, session, endpoint_secret, last, regs, page, remote>>

NextHandlers ==
    \/ Tick
    \/ GatewayActivates
    \/ \E p \in Procs, ev \in HandlerEvents, ok \in BOOLEAN : HStart(p, ev, ok)
    \/ \E p \in Procs : HWrite1(p)
    \/ \E p \in Procs : HWrite2(p)

SpecHandlers == InitHandlers /\ [][NextHandlers]_vars

\* The answer POST /webhook gives to request rq in the present state, and the
\* table it leaves: what Webhook(rq) does to members.
Handled(rq) ==
    stripe_webhook(members, endpoint_secret, rq.sig_ok, rq.payload_ok, rq.ev, rq.resp, now)

\* The requests that pass construct_event when the secret is configured.
VerifiedRequests == {rq \in WebhookRequests : rq.sig_ok /\ rq.payload_ok}

\* ================================================================ claims
Triple(r) == <<r.subscription_status, r.certificate_status, r.certificate_expiry_date>>

Linked(i, sub) == sub # NULL /\ members[i].stripe_subscription_id = sub

Accepted(type) == last.op = "webhook" /\ last.code = 200 /\ last.type = type

\* C1: handling the same invoice.payment_succeeded event a second time, the
\* gateway giving the same answer, leaves every member's (subscription_status,
\* certificate_status, certificate_expiry_date) as the first handling left it.
C1_PaymentSucceededIdempotent ==
    [][(last'.op = "webhook" /\ last'.type = "invoice.payment_succeeded" /\ last'.replay)
        => /\ Len(members') = Len(members)
           /\ \A i \in DOMAIN members : Triple(members'[i]) = Triple(members[i])]_vars

C1_Witness ==
    /\ Accepted("invoice.payment_succeeded") /\ last.replay /\ last.gw_ok
    /\ \E i \in DOMAIN members : Linked(i, last.sub)

\* C2: invoice.payment_succeeded handled right after invoice.payment_failed
\* for the same subscription, the gateway reporting current_period_end T,
\* leaves the linked member active / active with expiry T.
C2_FailedThenSucceeded ==
    \A i \in DOMAIN members :
        (Accepted("invoice.payment_succeeded") /\ last.gw_ok
            /\ last.after = "invoice.payment_failed" /\ Linked(i, last.sub))
        => Triple(members[i]) = <<"active", "active", IsoFormat(last.T)>>

C2_Witness ==
    /\ Accepted("invoice.payment_succeeded") /\ last.gw_ok
    /\ last.after = "invoice.payment_failed"
    /\ \E i \in DOMAIN members :
          Linked(i, last.sub) /\ members[i].certificate_expiry_date.t > now

\* C9: invoice.payment_succeeded for a linked subscription whose
\* current_period_end the gateway reports as T leaves the member active /
\* active with expiry T, whatever the statuses were before.
C9_PaymentSucceeded ==
    \A i \in DOMAIN members :
        (Accepted("invoice.payment_succeeded") /\ last.gw_ok /\ Linked(i, last.sub))
        => /\ members[i].subscription_status = "active"
           /\ members[i].certificate_status = "active"
           /\ members[i].certificate_expiry_date = IsoFormat(last.T)
           /\ ParseExpiry(members[i].certificate_expiry_date) = [ok |-> TRUE, t |-> last.T]

C9_Witness ==
    /\ Accepted("invoice.payment_succeeded") /\ last.gw_ok
    /\ last.after = "customer.subscription.deleted"
    /\ \E i \in DOMAIN members : Linked(i, last.sub)

\* C10: customer.subscription.deleted for a linked subscription leaves the
\* member canceled / revoked with an expiry strictly before the handling time,
\* and the certificate is not valid then or later.
C10_SubscriptionDeleted ==
    \A i \in DOMAIN members :
        (Accepted("customer.subscription.deleted") /\ Linked(i, last.sub))
        => /\ members[i].subscription_status = "canceled"
           /\ members[i].certificate_status = "revoked"
           /\ ParseExpiry(members[i].certificate_expiry_date).ok
           /\ ParseExpiry(members[i].certificate_expiry_date).t < members[i].updated_at
           /\ members[i].updated_at <= now
           /\ ~is_certificate_valid_from_db(members[i].certificate_expiry_date,
                                            members[i].certificate_status, now)

C10_Witness ==
    /\ Accepted("customer.subscription.deleted")
    /\ last.after = "invoice.payment_succeeded"
    /\ \E i \in DOMAIN members : Linked(i, last.sub)

\* C3: when the checkout session cannot be created during a registration, no
\* row is inserted: the table is as it was, it holds no row with the address
\* entered, and the user is told the payment process could not be started.
C3_GatewayFailureNoRow ==
    [][(last'.op = "register" /\ last'.calls # <<>> /\ ~last'.gw_ok)
        => /\ members' = members
           /\ get_member_by_email(members', last'.email) = 0
           /\ last'.outcome = "gateway_error"]_vars

C3_Witness ==
    /\ last.op = "register" /\ last.calls = <<"checkout.create">> /\ ~last.gw_ok
    /\ last.email \in Emails

\* C8: a webhook request whose signature does not verify or whose payload is
\* malformed is answered 400 (500 when no webhook secret is configured, where
\* nothing is verified), no gateway call is made and no event branch runs:
\* the table is the same after the request as before.
C8_RejectedRequest ==
    [][(last'.op = "webhook" /\ (~last'.sig_ok \/ ~last'.payload_ok))
        => /\ members' = members
           /\ gateway' = gateway
           /\ last'.calls = <<>>
           /\ last'.code = IF endpoint_secret = NULL THEN 500 ELSE 400]_vars

C8_Witness ==
    /\ last.op = "webhook" /\ ~last.sig_ok /\ last.payload_ok /\ last.code = 400
    /\ last.type = "customer.subscription.deleted"
    /\ \E i \in DOMAIN members :
          members[i].stripe_subscription_id # NULL /\ members[i].certificate_status = "active"


\* The line items of a subscription that are not the child item.
NonChildItems(items) == {it \in items : it.price # CHILD_PRICE_ID}

ChildItems(items) == {it \in items : it.price = CHILD_PRICE_ID}

ManageStep ==
    \E new_count \in 0..MaxChildren, retrieve_ok \in BOOLEAN, modify_ok \in BOOLEAN :
        ManageChildren(new_count, retrieve_ok, modify_ok)

\* C6: a subscription that has the base line item at quantity 1 still has it
\* at quantity 1 after every step, whatever children counts are submitted;
\* and an update_stripe_subscription_children call on a subscription without
\* a base item fails after the retrieve, with no modify request and the
\* subscription left as it was.
C6_BaseItemKept ==
    [][/\ \A s \in Subs :
            Item(BASE_PRICE_ID, 1) \in gateway[s] => Item(BASE_PRICE_ID, 1) \in gateway'[s]
       /\ (/\ ManageStep
           /\ last'.calls # <<>>
           /\ ItemIdOfPrice(gateway[last'.sub], BASE_PRICE_ID) = NOID)
          => /\ last'.outcome = "failed"
             /\ last'.calls = <<"retrieve">>
             /\ gateway' = gateway
             /\ members' = members]_vars

C6_Witness ==
    /\ last.op = "manage_children" /\ last.outcome = "updated" /\ last.qty = 0
    /\ gateway[last.sub] = {Item(BASE_PRICE_ID, 1), Item(OTHER_PRICE_ID, 1)}

\* C7: after update_stripe_subscription_children(S, n) returned True, S has
\* exactly the child item with quantity n when n > 0 and no child item when
\* n = 0; its other items and the other subscriptions are as before.
C7_ChildrenUpdateResult ==
    [][(ManageStep /\ last'.outcome = "updated")
          => /\ ChildItems(gateway'[last'.sub]) =
                    IF last'.qty > 0 THEN {Item(CHILD_PRICE_ID, last'.qty)} ELSE {}
             /\ NonChildItems(gateway'[last'.sub]) = NonChildItems(gateway[last'.sub])
             /\ \A s \in Subs \ {last'.sub} : gateway'[s] = gateway[s]]_vars

C7_Witness ==
    /\ last.op = "manage_children" /\ last.outcome = "updated" /\ last.qty > 0
    /\ Item(CHILD_PRICE_ID, last.qty) \in gateway[last.sub]
    /\ \E i \in DOMAIN members :
            members[i].stripe_subscription_id = last.sub /\ members[i].children = last.qty

\* The registrations that got as far as calling add_member.
Inserted(p) == regs[p].pc = "done" /\ regs[p].outcome \in {"redirect", "fault_IntegrityError"}

\* C4: no two rows of the store share an email; and when two interleaved
\* registrations with the same email have both called add_member, exactly
\* one row with that email is in the store.
C4_EmailUnique ==
    /\ \A i, j \in DOMAIN members : members[i].email = members[j].email => i = j
    /\ \A p, q \in Procs :
            (p # q /\ Inserted(p) /\ Inserted(q) /\ regs[p].email = regs[q].email)
                => Cardinality({i \in DOMAIN members : members[i].email = regs[p].email}) = 1

C4_Witness ==
    \E p, q \in Procs :
        /\ p # q /\ Inserted(p) /\ Inserted(q) /\ regs[p].email = regs[q].email
        /\ Len(members) = 1

\* C5: a registration whose insert the unique-email constraint refused ends
\* in an outcome the page reports, not in a fault of the request.
C5_RaceLoserHandled ==
    \A p \in Procs : regs[p].pc = "done" => regs[p].outcome \in HandledOutcomes

\* C11: invoice.payment_failed for a linked subscription leaves the member
\* past_due / expired with an expiry strictly before the handling time,
\* whatever the statuses were before, and the certificate is not valid.
C11_PaymentFailed ==
    \A i \in DOMAIN members :
        (Accepted("invoice.payment_failed") /\ Linked(i, last.sub))
        => /\ members[i].subscription_status = "past_due"
           /\ members[i].certificate_status = "expired"
           /\ ParseExpiry(members[i].certificate_expiry_date).ok
           /\ ParseExpiry(members[i].certificate_expiry_date).t < members[i].updated_at
           /\ members[i].updated_at <= now
           /\ ~is_certificate_valid_from_db(members[i].certificate_expiry_date,
                                            members[i].certificate_status, now)

C11_Witness ==
    /\ Accepted("invoice.payment_failed")
    /\ last.after = "customer.subscription.deleted"
    /\ \E i \in DOMAIN members : Linked(i, last.sub) /\ members[i].updated_at = MaxTime

\* C13: a registration that went through leaves a row for the address
\* entered with subscription_status incomplete, certificate_status
\* pending_payment and no customer or subscription id, whatever was entered;
\* its placeholder expiry is 30 days after the submission, in the future, and
\* its certificate is nevertheless not valid.
C13_RegistrationInitialState ==
    (last.op = "register" /\ last.outcome = "redirect")
    => LET i == get_member_by_email(members, last.email)
       IN  /\ i # 0
           /\ members[i].subscription_status = "incomplete"
           /\ members[i].certificate_status = "pending_payment"
           /\ members[i].stripe_customer_id = NULL
           /\ members[i].stripe_subscription_id = NULL
           /\ ParseExpiry(members[i].certificate_expiry_date) =
                  [ok |-> TRUE, t |-> members[i].created_at + 30]
           /\ ParseExpiry(members[i].certificate_expiry_date).t > now
           /\ ~is_certificate_valid_from_db(members[i].certificate_expiry_date,
                                            members[i].certificate_status, now)

C13_Witness ==
    /\ last.op = "register" /\ last.outcome = "redirect"
    /\ \E i \in DOMAIN members :
          members[i].email = last.email /\ members[i].children = MaxChildren

\* C12: no step of a page (registration, login, logout, children update)
\* changes the certificate_status or the subscription id of an existing row,
\* and a row a page inserts is pending_payment without a subscription id;
\* so a row that is active, expired or revoked carries the subscription id
\* that only a webhook event writes.
C12_ReconcilerOnlyPath ==
    [][/\ PageStep =>
            /\ Len(members') >= Len(members)
            /\ \A i \in DOMAIN members :
                  /\ members'[i].certificate_status = members[i].certificate_status
                  /\ members'[i].stripe_subscription_id = members[i].stripe_subscription_id
            /\ \A i \in DOMAIN members' \ DOMAIN members :
                  /\ members'[i].certificate_status = "pending_payment"
                  /\ members'[i].stripe_subscription_id = NULL
       /\ \A i \in DOMAIN members' :
            members'[i].certificate_status \in {"active", "expired", "revoked"}
                => members'[i].stripe_subscription_id # NULL]_vars

C12_Witness ==
    /\ last.op = "manage_children" /\ last.outcome = "updated"
    /\ \E i \in DOMAIN members :
          /\ members[i].certificate_status = "expired"
          /\ members[i].children = last.qty /\ last.qty > 0

\* C14: the monthly cost shown for n children is 20 + 5 * n; it is 20 for no
\* children and never lower than the cost for fewer children.
C14_MonthlyCost ==
    page.quoted
    => /\ page.cost = 20 + 5 * page.children
       /\ calculate_total_monthly_cost(0) = 20
       /\ \A c \in 0..page.children : calculate_total_monthly_cost(c) <= page.cost

C14_Witness ==
    page.quoted /\ page.children = MaxQuote /\ page.cost > 20

\* C15: the validity computed from an expiry and a status is false when the
\* status is not active, when the expiry is NULL or empty, when it is no
\* date, and when it is at or before the time of the check; it is true
\* exactly when the status is active and the expiry is a date strictly after
\* the time of the check.
C15_CertificateValidity ==
    page.checked
    => /\ (page.status # "active" => ~page.valid)
       /\ (page.expiry.kind \in {"null", "empty", "malformed"} => ~page.valid)
       /\ (page.expiry.kind = "iso" /\ page.expiry.t <= page.at => ~page.valid)
       /\ page.valid <=> (/\ page.status = "active"
                          /\ page.expiry.kind = "iso"
                          /\ page.expiry.t > page.at)

C15_Witness ==
    /\ page.checked /\ ~page.valid /\ page.status = "active"
    /\ page.expiry.kind = "iso" /\ page.expiry.t = page.at /\ page.at = MaxTime

KnownTypes ==
    {"checkout.session.completed", "invoice.payment_succeeded", "invoice.payment_failed",
     "customer.subscription.updated", "customer.subscription.deleted"}

\* The event matches no row: its type has no branch, or it is a checkout of an
\* address nobody registered, or it names a subscription no row is linked to.
Unmatched(ev) ==
    \/ ev.type \notin KnownTypes
    \/ ev.type = "checkout.session.completed"
          /\ \A i \in DOMAIN members : members[i].email # ev.email
    \/ ev.type \in KnownTypes \ {"checkout.session.completed"}
          /\ \A i \in DOMAIN members : ~Linked(i, ev.sub)

\* C16: a verified event of an unknown type, or of a known type that names a
\* subscription (for a checkout: an address) no row is linked to, is answered
\* with success (200) and leaves the table as it is, whatever the gateway
\* answers.
C16_UnmatchedEventNoOp ==
    \A rq \in VerifiedRequests :
        (endpoint_secret # NULL /\ Unmatched(rq.ev))
        => /\ Handled(rq).code = 200
           /\ Handled(rq).tbl = members

C16_Witness ==
    /\ Accepted("invoice.payment_failed") /\ last.sub # NULL
    /\ \E i \in DOMAIN members :
          /\ members[i].stripe_subscription_id \notin {NULL, last.sub}
          /\ members[i].certificate_status = "active"

\* C17: a verified checkout.session.completed with customer, subscription S
\* and metadata, the gateway answering with S's status and period end, leaves
\* the member found for it with the event's customer and subscription ids,
\* the gateway's status, certificate_status active for active or trialing and
\* pending_payment otherwise, and the period end as expiry.
C17_CheckoutCompleted ==
    \A rq \in VerifiedRequests :
        LET ev == rq.ev
            m == get_member_by_email(members, ev.email)
            r == Handled(rq).tbl[m]
        IN  (/\ endpoint_secret # NULL
             /\ ev.type = "checkout.session.completed" /\ CheckoutComplete(ev)
             /\ rq.resp.ok /\ m # 0)
            => /\ r.stripe_customer_id = ev.customer
               /\ r.stripe_subscription_id = ev.sub
               /\ r.subscription_status = rq.resp.status
               /\ r.certificate_status =
                      IF rq.resp.status \in {"active", "trialing"} THEN "active"
                      ELSE "pending_payment"
               /\ ParseExpiry(r.certificate_expiry_date) = [ok |-> TRUE, t |-> rq.resp.T]

C17_Witness ==
    /\ Accepted("checkout.session.completed")
    /\ \E i \in DOMAIN members :
          /\ members[i].stripe_subscription_id # NULL
          /\ members[i].stripe_customer_id # NULL
          /\ members[i].subscription_status = "trialing"
          /\ members[i].certificate_status = "active"

\* C18: a verified checkout.session.completed changes only the row whose id
\* is the app_user_id of the event's metadata.
C18_CheckoutByMetadata ==
    \A rq \in VerifiedRequests :
        (/\ endpoint_secret # NULL
         /\ rq.ev.type = "checkout.session.completed")
        => \A i \in DOMAIN members :
              Handled(rq).tbl[i] # members[i] => members[i].id = rq.ev.app_user_id

\* C19: a verified customer.subscription.updated leaves every member linked
\* to the subscription with the reported status, with certificate_status
\* active for active or trialing, revoked for canceled and expired for any
\* other status, and with the reported period end as expiry.
C19_SubscriptionUpdated ==
    \A rq \in VerifiedRequests :
        (endpoint_secret # NULL /\ rq.ev.type = "customer.subscription.updated")
        => \A i \in DOMAIN members :
              Linked(i, rq.ev.sub)
              => LET r == Handled(rq).tbl[i]
                 IN  /\ r.subscription_status = rq.ev.status
                     /\ r.certificate_status =
                            CASE rq.ev.status \in {"active", "trialing"} -> "active"
                              [] rq.ev.status = "canceled" -> "revoked"
                              [] OTHER -> "expired"
                     /\ ParseExpiry(r.certificate_expiry_date) =
                            [ok |-> TRUE, t |-> rq.ev.T]

C19_Witness ==
    /\ Accepted("customer.subscription.updated")
    /\ \E i \in DOMAIN members :
          /\ members[i].stripe_subscription_id # NULL
          /\ members[i].subscription_status = "incomplete"
          /\ members[i].certificate_status = "expired"

\* C20: a verified customer.subscription.updated leaves the member linked to
\* the subscription with children equal to the quantity of the child-price
\* item of the event's subscription, 0 when it has none; a count that already
\* agrees stays, and the rows not linked keep theirs.
C20_ChildrenReconciled ==
    \A rq \in VerifiedRequests :
        (endpoint_secret # NULL /\ rq.ev.type = "customer.subscription.updated")
        => LET m == get_member_by_stripe_subscription_id(members, rq.ev.sub)
               kids == {it \in rq.ev.items : it.price = CHILD_PRICE_ID}
               after == Handled(rq).tbl
           IN  /\ m # 0 =>
                     \/ kids = {} /\ after[m].children = 0
                     \/ \E it \in kids : after[m].children = it.quantity
               /\ \A i \in DOMAIN members :
                     ~Linked(i, rq.ev.sub) => after[i].children = members[i].children

C20_Witness ==
    /\ Accepted("customer.subscription.updated")
    /\ \E i \in DOMAIN members :
          /\ members[i].stripe_subscription_id # NULL
          /\ members[i].children = MaxChildren
          /\ members[i].updated_at > members[i].created_at

\* C21: whenever no operation is mid-execution, a member's certificate_status
\* is active exactly when its subscription_status is active or trialing.
C21_StatusCoupling ==
    \A i \in DOMAIN members :
        members[i].certificate_status = "active"
            <=> members[i].subscription_status \in {"active", "trialing"}

C21_Witness ==
    /\ Accepted("invoice.payment_failed")
    /\ last.after = "invoice.payment_succeeded"
    /\ \E i \in DOMAIN members :
          Linked(i, last.sub) /\ members[i].subscription_status = "past_due"

\* C22: when update_stripe_subscription_children does not return success in
\* the Manage Children flow (the retrieve or the modify is rejected, or the
\* base item is missing), the table is left exactly as it was, and so is the
\* subscription.
C22_FailedGatewayNoWrite ==
    [][(ManageStep /\ last'.outcome # "updated")
          => /\ members' = members
             /\ gateway' = gateway]_vars

C22_Witness ==
    /\ last.op = "manage_children" /\ last.outcome = "failed"
    /\ last.calls = <<"retrieve", "modify">>
    /\ \E i \in DOMAIN members :
          members[i].stripe_subscription_id = last.sub /\ members[i].children # last.qty

\* C24: a webhook request leaves the number of rows and every row's id,
\* email, certificate_id, name, password_hash, medical_answers_encrypted and
\* created_at as they were; only checkout.session.completed changes
\* stripe_customer_id or stripe_subscription_id, and only
\* customer.subscription.updated changes children.
C24_WebhookFrame ==
    [][last'.op = "webhook"
          => /\ Len(members') = Len(members)
             /\ \A i \in DOMAIN members :
                   /\ members'[i].id = members[i].id
                   /\ members'[i].email = members[i].email
                   /\ members'[i].certificate_id = members[i].certificate_id
                   /\ members'[i].name = members[i].name
                   /\ members'[i].password_hash = members[i].password_hash
                   /\ members'[i].medical_answers_encrypted =
                          members[i].medical_answers_encrypted
                   /\ members'[i].created_at = members[i].created_at
                   /\ last'.type # "checkout.session.completed"
                        => /\ members'[i].stripe_customer_id = members[i].stripe_customer_id
                           /\ members'[i].stripe_subscription_id =
                                  members[i].stripe_subscription_id
                   /\ last'.type # "customer.subscription.updated"
                        => members'[i].children = members[i].children]_vars

C24_Witness ==
    /\ Accepted("customer.subscription.updated") /\ now = MaxTime
    /\ \E i \in DOMAIN members :
          /\ members[i].stripe_subscription_id # NULL
          /\ members[i].children = 0
          /\ members[i].created_at < members[i].updated_at

Written(h) == <<h.status, h.cert, h.expiry>>

\* C23: when two handlers for the same subscription have both finished, in
\* whatever order their calls interleaved, the linked member's
\* (subscription_status, certificate_status, certificate_expiry_date) is the
\* triple of the handler that issued the last statement, never a mixture.
C23_LastWriteWins ==
    \A p \in Procs : \A q \in Procs \ {p}, i \in DOMAIN members :
        (/\ handlers[p].pc = "done" /\ handlers[q].pc = "done"
         /\ handlers[p].ev.sub = handlers[q].ev.sub
         /\ Linked(i, handlers[p].ev.sub)
         /\ handlers[p].latest)
            => Triple(members[i]) = Written(handlers[p])

C23_Witness ==
    \E p \in Procs : \E q \in Procs \ {p}, i \in DOMAIN members :
        /\ handlers[p].pc = "done" /\ handlers[q].pc = "done"
        /\ handlers[p].overlap /\ handlers[q].overlap
        /\ handlers[p].ev.type = "checkout.session.completed"
        /\ handlers[q].ev.type = "invoice.payment_failed"
        /\ Linked(i, handlers[p].ev.sub)
        /\ handlers[p].before = <<"expired", handlers[q].expiry>>
        /\ handlers[p].latest
        /\ Triple(members[i]) = Written(handlers[p])
        /\ Written(handlers[p]) # Written(handlers[q])

\* C25: once a checkout.session.completed handler and an
\* invoice.payment_succeeded handler for a member's subscription have both
\* finished without a gateway error and the subscription is active at the
\* gateway, the member is linked and (active, active) with the gateway's
\* current_period_end as expiry.
C25_EventualAgreement ==
    \A p \in Procs : \A q \in Procs \ {p} :
        (/\ handlers[p].pc = "done" /\ handlers[q].pc = "done"
         /\ ~handlers[p].failed /\ ~handlers[q].failed
         /\ handlers[p].ev.type = "checkout.session.completed"
         /\ handlers[q].ev.type = "invoice.payment_succeeded"
         /\ get_member_by_email(members, handlers[p].ev.email) # 0
         /\ remote[handlers[p].ev.sub].status = "active")
            => \E i \in DOMAIN members :
                  /\ Linked(i, handlers[p].ev.sub)
                  /\ Triple(members[i]) =
                        <<"active", "active", IsoFormat(remote[handlers[p].ev.sub].T)>>

\* A checkout handler between its two statements, on the row it is updating.
MidCheckout(p, i) ==
    /\ handlers[p].pc = "w2"
    /\ handlers[p].ev.type = "checkout.session.completed"
    /\ members[i].email = handlers[p].email

\* C26 as stated: no state of the store shows a member with the checkout
\* event's stripe_subscription_id and subscription_status next to the
\* certificate_status and certificate_expiry_date it had before the event.
C26_CheckoutAtomic ==
    \A p \in Procs, i \in DOMAIN members :
        MidCheckout(p, i)
            => ~(/\ members[i].stripe_subscription_id = handlers[p].ev.sub
                 /\ members[i].subscription_status = handlers[p].status
                 /\ <<members[i].certificate_status, members[i].certificate_expiry_date>>
                        = handlers[p].before
                 /\ handlers[p].before # <<handlers[p].cert, handlers[p].expiry>>)

\* C26, amended: the checkout update is two statements. The first sets the
\* subscription id and subscription_status and leaves certificate_status and
\* certificate_expiry_date as they were; certificate_status and
\* certificate_expiry_date change only in an update_subscription_status,
\* which sets them together with subscription_status.
C26_TwoAtomicUpdates ==
    [][\A i \in DOMAIN members :
          /\ \A p \in Procs :
                (/\ handlers[p].pc = "w1" /\ handlers'[p].pc = "w2"
                 /\ handlers[p].ev.type = "checkout.session.completed"
                 /\ members[i].email = handlers'[p].email)
                    => /\ members'[i].stripe_subscription_id = handlers[p].ev.sub
                       /\ members'[i].subscription_status = handlers[p].status
                       /\ members'[i].certificate_status = members[i].certificate_status
                       /\ members'[i].certificate_expiry_date =
                              members[i].certificate_expiry_date
          /\ (\/ members'[i].certificate_status # members[i].certificate_status
              \/ members'[i].certificate_expiry_date # members[i].certificate_expiry_date)
                => \E p \in Procs :
                      /\ handlers[p].pc = "w2" /\ handlers'[p].pc = "done"
                      /\ Triple(members'[i]) = Written(handlers'[p])]_vars

C26_Witness ==
    \E p \in Procs : \E q \in Procs \ {p}, i \in DOMAIN members :
        /\ MidCheckout(p, i)
        /\ members[i].stripe_subscription_id = handlers[p].ev.sub
        /\ Triple(members[i]) = <<"active", "pending_payment", IsoFormat(PLACEHOLDER_DAYS + 1)>>
        /\ handlers[q].ev.type = "customer.subscription.updated"
        /\ handlers[q].pc = "w2"
        /\ handlers[q].email = members[i].email

====
